---- MODULE Spec2Model ----
(***************************************************************************)
(* Model of cri-o's server/container_update_resources.go and               *)
(* server/container_stats.go.                                              *)
(*                                                                         *)
(* Conventions.                                                            *)
(*  - A Go pointer or error that may be nil is a sequence of length 0      *)
(*    (nil) or 1 (the pointee).                                            *)
(*  - An error is its message, kept as the sequence of pieces that the     *)
(*    format string and its arguments contribute, in order.                *)
(*  - A filesystem path is the sequence of its components.                 *)
(*  - A handler that waits for a collaborator (the runtime, the disk usage  *)
(*    walk) is a step up to the call and a step from its answer on, so     *)
(*    that other handlers and the lifecycle manager run in between.        *)
(*  - A uint64 is a record [wraps, val] that denotes wraps * 2^64 + val,   *)
(*    so uint64(-1) = 2^64 - 1 is [wraps |-> 1, val |-> -1].               *)
(***************************************************************************)
EXTENDS Integers, Sequences, FiniteSets, TLC

VARIABLES cstate, resources, runtimeLimits, swapSupported, hs, serialized, upd,
          sandboxes, storage, st, convIn, convOut

vars == <<cstate, resources, runtimeLimits, swapSupported, hs, serialized, upd,
          sandboxes, storage, st, convIn, convOut>>

\* ------------------------------------------------------------------ bounds
MaxVal == 1
MaxBatch == 3
Handlers == {"h1", "h2"}

\* ------------------------------------------------------- the fixed universe
Containers == {"c1", "c2"}
UnknownID == "zz"
ContainerIDs == Containers \cup {UnknownID}
States == {"created", "running", "stopped"}
NoErr == <<>>
Nil == <<>>

Sandbox(c) == IF c = "c1" THEN "sb1" ELSE "sb2"
SandboxIDs == {Sandbox(c) : c \in Containers}
MountPoint(c) == <<"var", "lib", "overlay", c, "merged">>
Metadata(c) == [Name |-> <<"name-", c>>, Attempt |-> 1]
Labels(c) == {<<"app", c>>}
Annotations(c) == {<<"io.kubernetes.container", c>>}
CgroupParent(sb) == <<"kubepods", sb>>

\* ------------------------------------------------------------- conversion
Vals == (-1)..MaxVal
CpuSets == {"", "0-1"}
LinuxContainerResources ==
    [CPUShares : Vals, CPUPeriod : Vals, CPUQuota : Vals,
     MemoryLimitInBytes : Vals, CPUsetCPUs : CpuSets, CPUsetMems : CpuSets]

ToUint64(x) == IF x >= 0 THEN [wraps |-> 0, val |-> x] ELSE [wraps |-> 1, val |-> x]

toOCIResources_SharesAlways(r, sw) ==
    [CPU |-> [Cpus |-> r.CPUsetCPUs,
              Mems |-> r.CPUsetMems,
              Shares |-> <<ToUint64(r.CPUShares)>>,
              Period |-> IF r.CPUPeriod # 0 THEN <<ToUint64(r.CPUPeriod)>> ELSE Nil,
              Quota |-> IF r.CPUQuota # 0 THEN <<r.CPUQuota>> ELSE Nil],
     Memory |-> [Limit |-> IF r.MemoryLimitInBytes # 0 THEN <<r.MemoryLimitInBytes>> ELSE Nil,
                 Swap |-> IF r.MemoryLimitInBytes # 0 /\ sw
                          THEN <<r.MemoryLimitInBytes>> ELSE Nil]]

toOCIResources_SwapAlways(r, sw) ==
    [CPU |-> [Cpus |-> r.CPUsetCPUs,
              Mems |-> r.CPUsetMems,
              Shares |-> IF r.CPUShares # 0 THEN <<ToUint64(r.CPUShares)>> ELSE Nil,
              Period |-> IF r.CPUPeriod # 0 THEN <<ToUint64(r.CPUPeriod)>> ELSE Nil,
              Quota |-> IF r.CPUQuota # 0 THEN <<r.CPUQuota>> ELSE Nil],
     Memory |-> [Limit |-> IF r.MemoryLimitInBytes # 0 THEN <<r.MemoryLimitInBytes>> ELSE Nil,
                 Swap |-> IF r.MemoryLimitInBytes # 0
                          THEN <<r.MemoryLimitInBytes>> ELSE Nil]]

\* sw is the value of node.CgroupHasMemorySwap() on this host.
toOCIResources(r, sw) ==
    LET memory == r.MemoryLimitInBytes IN
    [CPU |-> [Cpus |-> r.CPUsetCPUs,
              Mems |-> r.CPUsetMems,
              Shares |-> IF r.CPUShares # 0 THEN <<ToUint64(r.CPUShares)>> ELSE Nil,
              Period |-> IF r.CPUPeriod # 0 THEN <<ToUint64(r.CPUPeriod)>> ELSE Nil,
              Quota |-> IF r.CPUQuota # 0 THEN <<r.CPUQuota>> ELSE Nil],
     Memory |-> [Limit |-> IF memory # 0 THEN <<memory>> ELSE Nil,
                 Swap |-> IF memory # 0 /\ sw THEN <<memory>> ELSE Nil]]

\* ------------------------------------------------------------ collaborators
\* Registry lookup: resolveContainer(shortID) -> Container | NotFoundError.
GetContainerFromShortID(id) ==
    IF id \in Containers
    THEN [c |-> <<id>>, err |-> NoErr]
    ELSE [c |-> Nil, err |-> << <<"container with ID starting with ", id, " not found">> >>]

\* Liveness of a container: only created and running containers are live.
IsAlive(c, cst) ==
    IF cst[c] \in {"created", "running"}
    THEN NoErr
    ELSE << <<"container ", c, " is ", cst[c]>> >>

\* The in-memory store replaces the container's snapshot wholesale.
UpdateContainerLinuxResources(c, spec, res) == [res EXCEPT ![c] = spec]

\* Registry lookup: resolveSandbox(id) -> Sandbox | nil.
GetSandbox(sb, sbs) == IF sb \in sbs THEN <<sb>> ELSE Nil

\* Errors the runtime's update and stats calls may return.
RuntimeErrors == {<<"runtime: device or resource busy">>, <<"runtime: invalid argument">>}
RuntimeUpdateResponses == {NoErr} \cup {<<e>> : e \in RuntimeErrors}

\* ------------------------------------------------- UpdateContainerResources
NotLiveError_Skipped(c, cst) == NoErr

NotLiveError(c, cst) ==
    LET err == IsAlive(c, cst) IN
    IF err # NoErr
    THEN << <<"container is not created or running: ">> \o err[1] >>
    ELSE NoErr

\* The handler up to the runtime call: either it returns ret at once, or it
\* asks the runtime to apply spec to container c.  linux is req.Linux.
BeginOutcome(id, linux, cst, sw) ==
    LET lk == GetContainerFromShortID(id) IN
    IF lk.err # NoErr
    THEN [call |-> FALSE, ret |-> lk.err, spec |-> Nil]
    ELSE LET c == lk.c[1]
             dead == NotLiveError(c, cst) IN
         IF dead # NoErr
         THEN [call |-> FALSE, ret |-> dead, spec |-> Nil]
         ELSE IF linux # Nil
              THEN [call |-> TRUE, ret |-> NoErr, spec |-> <<toOCIResources(linux[1], sw)>>]
              ELSE [call |-> FALSE, ret |-> NoErr, spec |-> Nil]

AfterRuntime_MirrorAlways(rtErr) == [pc |-> "mirror", ret |-> rtErr]

AfterRuntime_NoMirror(rtErr) == [pc |-> "done", ret |-> rtErr]

AfterRuntime_SwallowError(rtErr) ==
    IF rtErr # NoErr
    THEN [pc |-> "done", ret |-> NoErr]
    ELSE [pc |-> "mirror", ret |-> NoErr]

\* rtErr is what s.Runtime().UpdateContainer(c, resources) returned: the
\* handler returns it, or goes on to update the memory store and return nil.
AfterRuntime(rtErr) ==
    IF rtErr # NoErr
    THEN [pc |-> "done", ret |-> rtErr]
    ELSE [pc |-> "mirror", ret |-> NoErr]

\* The requests the update machine is driven with.
ZeroRequest ==
    [CPUShares |-> 0, CPUPeriod |-> 0, CPUQuota |-> 0,
     MemoryLimitInBytes |-> 0, CPUsetCPUs |-> "", CPUsetMems |-> ""]
UpdateRequests ==
    {[ZeroRequest EXCEPT !.CPUShares = 1, !.MemoryLimitInBytes = 1],
     [ZeroRequest EXCEPT !.CPUQuota = -1, !.CPUsetCPUs = "0-1"]}
LinuxSections == {Nil} \cup {<<r>> : r \in UpdateRequests}

\* The snapshot a container is created with.
InitialResources == toOCIResources([ZeroRequest EXCEPT !.CPUPeriod = 1], FALSE)

\* A handler that is not running.
IdleHandler ==
    [pc |-> "idle", id |-> UnknownID, linux |-> Nil, state |-> "none",
     spec |-> InitialResources, ret |-> NoErr, rt |-> <<>>,
     pre |-> InitialResources, disturbed |-> FALSE]

\* The call that returned last: its request, the container's state at the
\* liveness check, the runtime call and store update it made, the
\* container's snapshot when it began (pre) and when it returned (post), and
\* whether another handler updated that snapshot in between (disturbed).
IdleUpdate ==
    [op |-> "none", id |-> UnknownID, linux |-> Nil, state |-> "none",
     ret |-> NoErr, rt |-> <<>>, mirrored |-> <<>>,
     pre |-> InitialResources, post |-> InitialResources, disturbed |-> FALSE]

Snapshot(id) == IF id \in Containers THEN resources[id] ELSE InitialResources
InFlight(h) == hs[h].pc # "idle"

\* Lines 13-24, up to the call of the runtime.
UpdateBegin(h, id, linux) ==
    LET o == BeginOutcome(id, linux, cstate, swapSupported)
        state == IF id \in Containers THEN cstate[id] ELSE "none" IN
    /\ hs[h].pc = "idle"
    /\ IF o.call
       THEN /\ hs' = [hs EXCEPT ![h] =
                        [pc |-> "runtime", id |-> id, linux |-> linux, state |-> state,
                         spec |-> o.spec[1], ret |-> NoErr, rt |-> <<>>,
                         pre |-> resources[id], disturbed |-> FALSE]]
            /\ serialized' = [serialized EXCEPT ![id] =
                        @ /\ \A g \in Handlers \ {h} : ~(InFlight(g) /\ hs[g].id = id)]
            /\ upd' = upd
       ELSE /\ upd' = [op |-> "update", id |-> id, linux |-> linux, state |-> state,
                       ret |-> o.ret, rt |-> <<>>, mirrored |-> <<>>,
                       pre |-> Snapshot(id), post |-> Snapshot(id), disturbed |-> FALSE]
            /\ UNCHANGED <<hs, serialized>>
    /\ UNCHANGED <<cstate, resources, runtimeLimits, swapSupported,
                   sandboxes, storage, st, convIn, convOut>>

\* Lines 25-27: the runtime answers rtErr; it has applied the limits when
\* rtErr is nil.
UpdateRuntimeAnswer(h, rtErr) ==
    LET r == hs[h]
        a == AfterRuntime(rtErr)
        call == <<[c |-> r.id, spec |-> r.spec, err |-> rtErr]>> IN
    /\ r.pc = "runtime"
    /\ runtimeLimits' = IF rtErr = NoErr
                        THEN [runtimeLimits EXCEPT ![r.id] = r.spec]
                        ELSE runtimeLimits
    /\ IF a.pc = "done"
       THEN /\ upd' = [op |-> "update", id |-> r.id, linux |-> r.linux, state |-> r.state,
                       ret |-> a.ret, rt |-> call, mirrored |-> <<>>,
                       pre |-> r.pre, post |-> resources[r.id], disturbed |-> r.disturbed]
            /\ hs' = [hs EXCEPT ![h] = IdleHandler]
       ELSE /\ hs' = [hs EXCEPT ![h].pc = "mirror", ![h].ret = a.ret, ![h].rt = call]
            /\ upd' = upd
    /\ UNCHANGED <<cstate, resources, swapSupported, serialized,
                   sandboxes, storage, st, convIn, convOut>>

\* Lines 29-33: update the memory store and return.
UpdateMirror(h) ==
    LET r == hs[h] IN
    /\ r.pc = "mirror"
    /\ resources' = UpdateContainerLinuxResources(r.id, r.spec, resources)
    /\ upd' = [op |-> "update", id |-> r.id, linux |-> r.linux, state |-> r.state,
               ret |-> r.ret, rt |-> r.rt,
               mirrored |-> <<[c |-> r.id, spec |-> r.spec]>>,
               pre |-> r.pre, post |-> resources'[r.id], disturbed |-> r.disturbed]
    /\ hs' = [g \in Handlers |->
                IF g = h THEN IdleHandler
                ELSE IF InFlight(g) /\ hs[g].id = r.id
                     THEN [hs[g] EXCEPT !.disturbed = TRUE]
                     ELSE hs[g]]
    /\ UNCHANGED <<cstate, runtimeLimits, swapSupported, serialized,
                   sandboxes, storage, st, convIn, convOut>>

\* The lifecycle manager moves a container created -> running -> stopped.
Lifecycle(c) ==
    /\ cstate[c] # "stopped"
    /\ \E s \in States :
         /\ \/ cstate[c] = "created" /\ s \in {"running", "stopped"}
            \/ cstate[c] = "running" /\ s = "stopped"
         /\ cstate' = [cstate EXCEPT ![c] = s]
    /\ UNCHANGED <<resources, runtimeLimits, swapSupported, hs, serialized, upd,
                   sandboxes, storage, st, convIn, convOut>>

\* ------------------------------------------------------------------- stats
\* What the runtime's stats query and the disk usage walk may answer.
RuntimeStatsResponses ==
    {[stat |-> <<[SystemNano |-> 100, CPUNano |-> 7, WorkingSetBytes |-> 9]>>, err |-> NoErr],
     [stat |-> <<[SystemNano |-> 200, CPUNano |-> 11, WorkingSetBytes |-> 13]>>, err |-> NoErr]}
    \cup {[stat |-> Nil, err |-> <<e>>] : e \in RuntimeErrors}

\* diskUsage(path) -> (bytesUsed, inodesUsed, error); a walk that fails may
\* still hand back what it had counted.
NoDiskUsage == [bytesUsed |-> 0, inodeUsed |-> 0, err |-> NoErr]
DiskUsageResponses ==
    {[bytesUsed |-> 4, inodeUsed |-> 2, err |-> NoErr],
     [bytesUsed |-> 0, inodeUsed |-> 0, err |-> << <<"lstat: no such file or directory">> >>],
     [bytesUsed |-> 5, inodeUsed |-> 3, err |-> << <<"read: input/output error">> >>]}

\* filepath.Dir and filepath.Join on component sequences.
Dir(path) == IF Len(path) = 0 THEN <<>> ELSE SubSeq(path, 1, Len(path) - 1)
Join(path, elem) == Append(path, elem)

\* The separator of the warning's format string is U+FF0C (fullwidth comma)
\* followed by a space.
WarnSeparator == "<U+FF0C> "

buildContainerStats_AlwaysLayer(stats, c, stor, probe) ==
    [stat |-> [Attributes |-> [ID |-> c,
                               Metadata |-> [Name |-> Metadata(c).Name,
                                             Attempt |-> Metadata(c).Attempt],
                               Labels |-> Labels(c),
                               Annotations |-> Annotations(c)],
               CPU |-> <<[Timestamp |-> stats.SystemNano,
                          UsageCoreNanoSeconds |-> stats.CPUNano]>>,
               Memory |-> <<[Timestamp |-> stats.SystemNano,
                             WorkingSetBytes |-> stats.WorkingSetBytes]>>,
               WritableLayer |-> <<[Timestamp |-> stats.SystemNano,
                                    FsID |-> [Mountpoint |-> MountPoint(c)],
                                    UsedBytes |-> probe.bytesUsed,
                                    InodesUsed |-> probe.inodeUsed]>>],
     warned |-> IF probe.err # NoErr
                THEN << <<"unable to get disk usage for container ", c, WarnSeparator>>
                        \o probe.err[1] >>
                ELSE <<>>]

\* stats is the runtime's answer for container c, probe what
\* statsmgr.GetDiskUsageStats(diffDir) answered (read only under the overlay
\* driver, where it is called).  The result carries the record built and the
\* warning logged.
buildContainerStats(stats, c, stor, probe) ==
    LET overlay == stor = "overlay"
        writableLayer ==
            IF overlay
            THEN <<[Timestamp |-> stats.SystemNano,
                    FsID |-> [Mountpoint |-> MountPoint(c)],
                    UsedBytes |-> probe.bytesUsed,
                    InodesUsed |-> probe.inodeUsed]>>
            ELSE Nil IN
    [stat |-> [Attributes |-> [ID |-> c,
                               Metadata |-> [Name |-> Metadata(c).Name,
                                             Attempt |-> Metadata(c).Attempt],
                               Labels |-> Labels(c),
                               Annotations |-> Annotations(c)],
               CPU |-> <<[Timestamp |-> stats.SystemNano,
                          UsageCoreNanoSeconds |-> stats.CPUNano]>>,
               Memory |-> <<[Timestamp |-> stats.SystemNano,
                             WorkingSetBytes |-> stats.WorkingSetBytes]>>,
               WritableLayer |-> writableLayer],
     warned |-> IF overlay /\ probe.err # NoErr
                THEN << <<"unable to get disk usage for container ", c, WarnSeparator>>
                        \o probe.err[1] >>
                ELSE <<>>]

\* The directory the disk usage walk is asked about.
DiffDir(c) == Join(Dir(MountPoint(c)), "diff")

NextAfterError_Return(i, containers) == Len(containers) + 1

\* The "continue" after an error has been appended: on to the next container.
NextAfterError(i, containers) == i + 1

ContainerStatsResponse_IgnoreErrs(id, stats, errs) ==
    IF Len(stats) # 1
    THEN [resp |-> Nil,
          err |-> << <<"Unknown error happened finding container stats for ", id>> >>]
    ELSE [resp |-> <<[Stats |-> stats[1]]>>, err |-> NoErr]

\* What ContainerStats makes of the batch's two sequences.
ContainerStatsResponse(id, stats, errs) ==
    IF Len(errs) > 0
    THEN [resp |-> Nil, err |-> <<errs[1]>>]
    ELSE IF Len(stats) # 1
         THEN [resp |-> Nil,
               err |-> << <<"Unknown error happened finding container stats for ", id>> >>]
         ELSE [resp |-> <<[Stats |-> stats[1]]>>, err |-> NoErr]

\* The stats call in progress or returned last.  log[k] holds what the k-th
\* iteration of the loop was answered: the sandbox found (sb), the runtime's
\* answer (rt), the disk usage walk's path and answer (probe); each is empty
\* when the collaborator was not asked.
IdleStats ==
    [op |-> "none", pc |-> "done", id |-> UnknownID, containers |-> <<>>, i |-> 1,
     log |-> <<>>, stats |-> <<>>, errs |-> <<>>, warnings |-> <<>>,
     resp |-> Nil, err |-> NoErr]

\* The loop moves to its i-th iteration, or, past the last container,
\* CRIStatsForContainers returns and (for ContainerStats) the response is
\* built.
Continue(r, i) ==
    IF i <= Len(r.containers)
    THEN [r EXCEPT !.pc = "lookup", !.i = i]
    ELSE IF r.op = "single"
         THEN LET a == ContainerStatsResponse(r.id, r.stats, r.errs) IN
              [r EXCEPT !.pc = "done", !.i = i, !.resp = a.resp, !.err = a.err]
         ELSE [r EXCEPT !.pc = "done", !.i = i]

StatsFrame ==
    UNCHANGED <<cstate, resources, runtimeLimits, swapSupported, hs, serialized, upd,
                sandboxes, storage, convIn, convOut>>

Batches == UNION {[1..n -> Containers] : n \in 0..MaxBatch}

\* CRIStatsForContainers is called with containers.
StatsForContainers(containers) ==
    /\ st.pc = "done"
    /\ st' = Continue([IdleStats EXCEPT !.op = "batch", !.containers = containers], 1)
    /\ StatsFrame

\* ContainerStats up to its call of CRIStatsForContainers.
ContainerStats(id) ==
    LET lk == GetContainerFromShortID(id) IN
    /\ st.pc = "done"
    /\ st' = IF lk.err # NoErr
             THEN [IdleStats EXCEPT !.op = "single", !.id = id, !.err = lk.err]
             ELSE Continue([IdleStats EXCEPT !.op = "single", !.id = id,
                                             !.containers = lk.c], 1)
    /\ StatsFrame

\* Lines 37-42: the sandbox of the i-th container is looked up.
StatsLookup ==
    LET c == st.containers[st.i]
        sb == GetSandbox(Sandbox(c), sandboxes)
        entry == [c |-> c, sb |-> sb, rt |-> <<>>, probe |-> <<>>] IN
    /\ st.pc = "lookup"
    /\ st' = IF sb = Nil
             THEN Continue([st EXCEPT
                     !.log = Append(@, entry),
                     !.errs = Append(@, <<"unable to get stats for container ", c,
                                          ": sandbox ", Sandbox(c), " not found">>)],
                     NextAfterError(st.i, st.containers))
             ELSE [st EXCEPT !.pc = "runtime", !.log = Append(@, entry)]
    /\ StatsFrame

\* Lines 44-49 and 57-60: the runtime answers the stats query made with the
\* sandbox's cgroup parent.
StatsRuntimeAnswer(rt) ==
    LET c == st.containers[st.i]
        k == Len(st.log)
        cgroup == CgroupParent(st.log[k].sb[1])
        asked == [st EXCEPT !.log[k].rt = <<[cgroup |-> cgroup, out |-> rt]>>] IN
    /\ st.pc = "runtime"
    /\ st' = IF rt.err # NoErr
             THEN Continue([asked EXCEPT !.errs = Append(@, rt.err[1])],
                           NextAfterError(st.i, st.containers))
             ELSE IF storage = "overlay"
                  THEN [asked EXCEPT !.pc = "probe"]
                  ELSE LET b == buildContainerStats(rt.stat[1], c, storage, NoDiskUsage) IN
                       Continue([asked EXCEPT !.stats = Append(@, b.stat),
                                              !.warnings = @ \o b.warned], st.i + 1)
    /\ StatsFrame

\* Lines 61-93 and 49: the disk usage walk answers.
StatsProbeAnswer(probe) ==
    LET c == st.containers[st.i]
        k == Len(st.log)
        b == buildContainerStats(st.log[k].rt[1].out.stat[1], c, storage, probe) IN
    /\ st.pc = "probe"
    /\ st' = Continue([st EXCEPT !.log[k].probe = <<[path |-> DiffDir(c), out |-> probe]>>,
                                 !.stats = Append(@, b.stat),
                                 !.warnings = @ \o b.warned], st.i + 1)
    /\ StatsFrame

\* The registry gains or loses a sandbox.
SandboxChange(sb) ==
    /\ sandboxes' = IF sb \in sandboxes THEN sandboxes \ {sb} ELSE sandboxes \cup {sb}
    /\ UNCHANGED <<cstate, resources, runtimeLimits, swapSupported, hs, serialized, upd,
                   storage, st, convIn, convOut>>

StorageDrivers == {"overlay", "vfs"}

\* --------------------------------------------------------- specifications
\* c2 is a container that has already stopped.
Init ==
    /\ cstate \in {f \in [Containers -> States] : f["c2"] = "stopped"}
    /\ resources = [c \in Containers |-> InitialResources]
    /\ runtimeLimits = [c \in Containers |-> InitialResources]
    /\ swapSupported \in BOOLEAN
    /\ hs = [h \in Handlers |-> IdleHandler]
    /\ serialized = [c \in Containers |-> TRUE]
    /\ upd = IdleUpdate
    /\ sandboxes = SandboxIDs
    /\ storage = "overlay"
    /\ st = IdleStats
    /\ convIn = ZeroRequest
    /\ convOut = Nil

Next ==
    \/ \E h \in Handlers, id \in ContainerIDs, linux \in LinuxSections :
         UpdateBegin(h, id, linux)
    \/ \E h \in Handlers, rtErr \in RuntimeUpdateResponses : UpdateRuntimeAnswer(h, rtErr)
    \/ \E h \in Handlers : UpdateMirror(h)
    \/ \E c \in Containers : Lifecycle(c)

Spec == Init /\ [][Next]_vars

InitStats ==
    /\ cstate = [c \in Containers |-> "running"]
    /\ resources = [c \in Containers |-> InitialResources]
    /\ runtimeLimits = [c \in Containers |-> InitialResources]
    /\ swapSupported = FALSE
    /\ hs = [h \in Handlers |-> IdleHandler]
    /\ serialized = [c \in Containers |-> TRUE]
    /\ upd = IdleUpdate
    /\ sandboxes \in SUBSET SandboxIDs
    /\ storage \in StorageDrivers
    /\ st = IdleStats
    /\ convIn = ZeroRequest
    /\ convOut = Nil

NextStats ==
    \/ \E containers \in Batches : StatsForContainers(containers)
    \/ \E id \in ContainerIDs : ContainerStats(id)
    \/ StatsLookup
    \/ \E rt \in RuntimeStatsResponses : StatsRuntimeAnswer(rt)
    \/ \E probe \in DiskUsageResponses : StatsProbeAnswer(probe)
    \/ \E sb \in SandboxIDs : SandboxChange(sb)

SpecStats == InitStats /\ [][NextStats]_vars

\* The conversion on its own.
InitConv ==
    /\ cstate = [c \in Containers |-> "running"]
    /\ resources = [c \in Containers |-> InitialResources]
    /\ runtimeLimits = [c \in Containers |-> InitialResources]
    /\ swapSupported \in BOOLEAN
    /\ hs = [h \in Handlers |-> IdleHandler]
    /\ serialized = [c \in Containers |-> TRUE]
    /\ upd = IdleUpdate
    /\ sandboxes = SandboxIDs
    /\ storage = "overlay"
    /\ st = IdleStats
    /\ convIn \in LinuxContainerResources
    /\ convOut = Nil

Convert ==
    /\ convOut = Nil
    /\ convOut' = <<toOCIResources(convIn, swapSupported)>>
    /\ UNCHANGED <<cstate, resources, runtimeLimits, swapSupported, hs, serialized, upd,
                   sandboxes, storage, st, convIn>>

NextConv == Convert

SpecConv == InitConv /\ [][NextConv]_vars


\* ------------------------------------------------------------- properties
Live(state) == state \in {"created", "running"}
Mentions(msg, id) == \E i \in 1..Len(msg) : msg[i] = id
IsNotLiveError(e) == Len(e) >= 1 /\ e[1] = "container is not created or running: "
IsInternalError(e) == Len(e) >= 1 /\ e[1] = "Unknown error happened finding container stats for "
RuntimeFailed == upd.op = "update" /\ upd.rt # <<>> /\ upd.rt[1].err # NoErr
Mirroring(c) == \E h \in Handlers : hs[h].pc = "mirror" /\ hs[h].id = c

\* C1: when the runtime's update call of an UpdateContainerResources call on
\* a container that was live at the check returns an error, the call never
\* asks the store to update, the caller gets exactly the runtime's error,
\* and (no other handler having updated the container's snapshot during the
\* call) the snapshot at return is the snapshot at the start of the call.
C1_RuntimeFailureLeavesSnapshot ==
    (RuntimeFailed /\ Live(upd.state)) =>
        /\ upd.mirrored = <<>>
        /\ upd.ret = upd.rt[1].err
        /\ ~upd.disturbed => upd.post = upd.pre

C1_Witness ==
    /\ RuntimeFailed
    /\ Live(upd.state)
    /\ ~upd.disturbed
    /\ upd.rt[1].spec # upd.pre
    /\ upd.pre # InitialResources
    /\ upd.post = upd.pre
    /\ upd.ret = << <<"runtime: invalid argument">> >>

\* C2: an UpdateContainerResources call that finds its container neither
\* created nor running fails with the "not created or running" error, makes
\* no runtime update call and leaves the snapshot as it was.
C2_NotLiveRejectedBeforeRuntime ==
    (upd.op = "update" /\ upd.id \in Containers /\ ~Live(upd.state)) =>
        /\ upd.ret # NoErr
        /\ IsNotLiveError(upd.ret[1])
        /\ upd.rt = <<>>
        /\ upd.mirrored = <<>>
        /\ upd.post = upd.pre

C2_Witness ==
    /\ upd.op = "update"
    /\ upd.id = "c1"
    /\ upd.state = "stopped"
    /\ upd.linux # Nil
    /\ upd.ret # NoErr
    /\ upd.pre # InitialResources

\* C3: a handler updates the store only after its own runtime update call
\* has returned without error, and with the spec of that call; so as long as
\* the updates of a container are serialized (never two in flight), its
\* snapshot is the spec of the most recent runtime update call that
\* succeeded (its initial snapshot when none did) whenever no handler stands
\* between the runtime's answer and the store update.
C3_SnapshotIsLastAccepted ==
    /\ \A c \in Containers :
         (serialized[c] /\ ~Mirroring(c)) => resources[c] = runtimeLimits[c]
    /\ \A h \in Handlers :
         hs[h].pc = "mirror" =>
             /\ hs[h].rt = <<[c |-> hs[h].id, spec |-> hs[h].spec, err |-> NoErr]>>
             /\ runtimeLimits[hs[h].id] = hs[h].spec \/ ~serialized[hs[h].id]
    /\ upd.mirrored # <<>> =>
         /\ Len(upd.rt) = 1
         /\ upd.rt[1].err = NoErr
         /\ upd.mirrored = <<[c |-> upd.rt[1].c, spec |-> upd.rt[1].spec]>>

C3_Witness ==
    /\ RuntimeFailed
    /\ serialized[upd.id]
    /\ \A h \in Handlers : hs[h].pc = "idle"
    /\ resources[upd.id] # InitialResources
    /\ resources[upd.id] # upd.rt[1].spec
    /\ resources[upd.id] = runtimeLimits[upd.id]

UpdateMirrored ==
    /\ upd.ret = NoErr
    /\ upd.id \in Containers
    /\ upd.linux # Nil
    /\ upd.rt = <<[c |-> upd.id,
                   spec |-> toOCIResources(upd.linux[1], swapSupported),
                   err |-> NoErr]>>
    /\ upd.mirrored = <<[c |-> upd.id, spec |-> upd.rt[1].spec]>>
    /\ upd.post = upd.rt[1].spec

UpdateFailed ==
    /\ upd.ret # NoErr
    /\ upd.mirrored = <<>>
    /\ ~upd.disturbed => upd.post = upd.pre

UpdateNoLinux ==
    /\ upd.ret = NoErr
    /\ upd.id \in Containers
    /\ Live(upd.state)
    /\ upd.linux = Nil
    /\ upd.rt = <<>>
    /\ upd.mirrored = <<>>
    /\ upd.post = upd.pre

\* C4 as stated: every UpdateContainerResources call either succeeds with the
\* runtime called once with the converted spec and the snapshot replaced by
\* it, or returns an error with the snapshot unchanged.
C4_TwoOutcomes == upd.op = "update" => (UpdateMirrored \/ UpdateFailed)

\* C4 as amended: there is a third outcome, for a request without a Linux
\* resources section on a live container: success, no runtime call, the
\* snapshot unchanged.
C4_ThreeOutcomes ==
    upd.op = "update" => (UpdateMirrored \/ UpdateFailed \/ UpdateNoLinux)

C4_Witness == upd.op = "update" /\ UpdateNoLinux /\ ~UpdateMirrored /\ upd.pre # InitialResources

\* ---- stats
Returned == st.op \in {"batch", "single"} /\ st.pc = "done"
GoodEntry(e) == e.sb # Nil /\ e.rt # <<>> /\ e.rt[1].out.err = NoErr
Positions == [i \in 1..Len(st.log) |-> i]
GoodPos == SelectSeq(Positions, LAMBDA i : GoodEntry(st.log[i]))
BadPos == SelectSeq(Positions, LAMBDA i : ~GoodEntry(st.log[i]))
\* the index in st.stats of the record of the i-th container, when it is good
StatIndex(i) == Cardinality({j \in 1..i : GoodEntry(st.log[j])})

\* C5: a batch over N containers goes through all N; it yields one stats
\* record per container whose sandbox resolved and whose runtime query
\* succeeded and one error per other container, both in input order; the
\* error of a container without sandbox names the container.  With exactly
\* one container without sandbox and no runtime failure that is N-1 records
\* and 1 error.
C5_BatchNeverShortCircuits ==
    (st.op = "batch" /\ st.pc = "done") =>
        /\ Len(st.log) = Len(st.containers)
        /\ \A k \in 1..Len(st.log) : st.log[k].c = st.containers[k]
        /\ Len(st.stats) + Len(st.errs) = Len(st.containers)
        /\ Len(st.stats) = Len(GoodPos)
        /\ \A k \in 1..Len(GoodPos) : st.stats[k].Attributes.ID = st.containers[GoodPos[k]]
        /\ Len(st.errs) = Len(BadPos)
        /\ \A k \in 1..Len(BadPos) :
             LET e == st.log[BadPos[k]] IN
             IF e.sb # Nil
             THEN e.rt # <<>> /\ st.errs[k] = e.rt[1].out.err[1]
             ELSE Mentions(st.errs[k], e.c)
        /\ ( /\ Cardinality({i \in 1..Len(st.log) : st.log[i].sb = Nil}) = 1
             /\ \A i \in 1..Len(st.log) :
                  st.log[i].sb # Nil => GoodEntry(st.log[i]) )
           => /\ Len(st.stats) = Len(st.containers) - 1
              /\ Len(st.errs) = 1
              /\ \E i \in 1..Len(st.log) :
                   st.log[i].sb = Nil /\ Mentions(st.errs[1], st.containers[i])

C5_Witness ==
    /\ st.op = "batch"
    /\ st.pc = "done"
    /\ Len(st.containers) = 3
    /\ Len(st.log) = 3
    /\ st.log[1].sb = Nil
    /\ GoodEntry(st.log[2])
    /\ GoodEntry(st.log[3])
    /\ Len(st.stats) = 2
    /\ Len(st.errs) = 1

\* C6: ContainerStats returns one record or one error, never both or
\* neither: the lookup's error without any sandbox or runtime query when the
\* ID does not resolve; the batch's first error when it has one; an internal
\* error when the batch has no error and not exactly one record; otherwise
\* that one record, which is the requested container's.
C6_SingleRecordOrSingleError ==
    (st.op = "single" /\ st.pc = "done") =>
        /\ (st.resp # Nil) # (st.err # NoErr)
        /\ IF st.id \notin Containers
           THEN /\ st.err = GetContainerFromShortID(st.id).err
                /\ st.log = <<>>
           ELSE IF Len(st.errs) > 0
           THEN st.resp = Nil /\ st.err = <<st.errs[1]>>
           ELSE IF Len(st.stats) # 1
           THEN st.resp = Nil /\ st.err # NoErr /\ IsInternalError(st.err[1])
           ELSE /\ st.err = NoErr
                /\ st.resp = <<[Stats |-> st.stats[1]]>>
                /\ st.resp[1].Stats.Attributes.ID = st.id

C6_Witness ==
    /\ st.op = "single"
    /\ st.pc = "done"
    /\ st.id \in Containers
    /\ Len(st.log) = 1
    /\ st.log[1].rt # <<>>
    /\ st.log[1].rt[1].out.err # NoErr
    /\ st.err = st.log[1].rt[1].out.err
    /\ st.resp = Nil

\* C7: a container whose disk usage probe fails (overlay driver) still
\* yields a stats record, with a writable-layer section whose UsedBytes and
\* InodesUsed are 0 whatever the probe returned with its error, and adds no
\* error.
C7_ProbeFailureYieldsZeros ==
    Returned =>
        \A i \in 1..Len(st.log) :
            (st.log[i].probe # <<>> /\ st.log[i].probe[1].out.err # NoErr) =>
                /\ StatIndex(i) \in 1..Len(st.stats)
                /\ st.stats[StatIndex(i)].Attributes.ID = st.log[i].c
                /\ st.stats[StatIndex(i)].WritableLayer # Nil
                /\ st.stats[StatIndex(i)].WritableLayer[1].UsedBytes = 0
                /\ st.stats[StatIndex(i)].WritableLayer[1].InodesUsed = 0
                /\ Len(st.errs) = Len(BadPos)

\* C8: the record of a container with a resolvable sandbox and a successful
\* runtime query has CPU and Memory sections carrying the runtime's CPU
\* nanoseconds, working set bytes and timestamp, and has a writable-layer
\* section exactly when the storage driver is overlay.
C8_SectionsPresent ==
    Returned =>
        \A i \in 1..Len(st.log) :
            LET k == StatIndex(i)
                answer == st.log[i].rt[1].out.stat[1] IN
            GoodEntry(st.log[i]) =>
                /\ k \in 1..Len(st.stats)
                /\ st.stats[k].Attributes.ID = st.log[i].c
                /\ st.stats[k].CPU =
                     <<[Timestamp |-> answer.SystemNano,
                        UsageCoreNanoSeconds |-> answer.CPUNano]>>
                /\ st.stats[k].Memory =
                     <<[Timestamp |-> answer.SystemNano,
                        WorkingSetBytes |-> answer.WorkingSetBytes]>>
                /\ (st.stats[k].WritableLayer = Nil) <=> (storage # "overlay")

C8_Witness ==
    /\ st.op = "batch"
    /\ st.pc = "done"
    /\ storage # "overlay"
    /\ Len(st.log) = 2
    /\ GoodEntry(st.log[1])
    /\ GoodEntry(st.log[2])
    /\ st.log[1].rt # st.log[2].rt
    /\ Len(st.stats) = 2
    /\ st.stats[2].WritableLayer = Nil

\* ---- conversion
NumericZero(r) ==
    r.CPUShares = 0 /\ r.CPUPeriod = 0 /\ r.CPUQuota = 0 /\ r.MemoryLimitInBytes = 0

\* C9: toOCIResources copies the two cpuset strings and sets each of Shares,
\* Period, Quota and Limit exactly when its source field is non-zero; a
\* request whose numeric fields are all zero sets none of Shares, Period,
\* Quota, Limit and Swap.
C9_PresenceFieldByField ==
    convOut # Nil =>
        LET o == convOut[1] IN
        /\ o.CPU.Cpus = convIn.CPUsetCPUs
        /\ o.CPU.Mems = convIn.CPUsetMems
        /\ (o.CPU.Shares # Nil) <=> (convIn.CPUShares # 0)
        /\ (o.CPU.Period # Nil) <=> (convIn.CPUPeriod # 0)
        /\ (o.CPU.Quota # Nil) <=> (convIn.CPUQuota # 0)
        /\ (o.Memory.Limit # Nil) <=> (convIn.MemoryLimitInBytes # 0)
        /\ NumericZero(convIn) =>
             /\ o.CPU.Shares = Nil /\ o.CPU.Period = Nil /\ o.CPU.Quota = Nil
             /\ o.Memory.Limit = Nil /\ o.Memory.Swap = Nil

C9_Witness ==
    /\ convOut # Nil
    /\ NumericZero(convIn)
    /\ convIn.CPUsetCPUs = "0-1"
    /\ convOut[1].CPU.Cpus = "0-1"
    /\ convOut[1].CPU.Shares = Nil

\* C10: for a non-zero memory limit Memory.Swap is absent when swap
\* accounting is unsupported and equals the limit when it is supported; for
\* a zero memory limit it is absent either way.
C10_SwapMirrorsLimit ==
    convOut # Nil =>
        LET m == convIn.MemoryLimitInBytes
            swap == convOut[1].Memory.Swap IN
        /\ (m # 0 /\ ~swapSupported) => swap = Nil
        /\ (m # 0 /\ swapSupported) => swap = <<m>>
        /\ m = 0 => swap = Nil

C10_Witness ==
    /\ convOut # Nil
    /\ convIn.MemoryLimitInBytes = -1
    /\ swapSupported
    /\ convOut[1].Memory.Swap = <<-1>>

====
